---- MODULE Spec2Model ----
(***************************************************************************)
(* Clock-Sync (src/app.py): the node clock model, berkeley_sync,           *)
(* cristian_sync and the "Run Simulation" handler of the Streamlit script. *)
(*                                                                         *)
(* Numbers.  Every time value of the program (a reading, an offset, a      *)
(* skew, a central value) and every drift is a Python float, and the model *)
(* computes them as the interpreter does: IEEE 754 binary64 with rounding  *)
(* to nearest, ties to even, after every operation, with overflow to inf,  *)
(* nan, signed zeros and subnormal numbers (section "Python float").       *)
(* sum() adds from left to right, as CPython 3.11 does.                    *)
(*                                                                         *)
(* Python lists are 0-based, TLA+ sequences 1-based: nodes[i] of the       *)
(* source is nodes[i+1] here, and node_id keeps the source's 0-based id.   *)
(* A list of Node references handed to a function (nodes, nodes[1:],       *)
(* clients) is the sequence of the positions of those objects in nodes.    *)
(***************************************************************************)
EXTENDS Integers, Sequences, FiniteSets, TLC

VARIABLES
    algorithm,      \* sidebar selectbox "Algorithm"
    fault_type,     \* sidebar selectbox "Fault Type"
    use_robust,     \* sidebar checkbox "Use Robust Mode"
    input_method,   \* sidebar radio "Clock Initialization"
    manual_times,   \* list of the number inputs; <<>> models None
    nodes,          \* list of Node objects
    before_times,   \* readings of all nodes before the sync
    skew_before,
    after_times,    \* readings of all nodes after the sync
    skew_after,
    status,         \* "SYNCHRONIZED" | "UNSYNCHRONIZED" | "" (nothing shown)
    called,         \* "none" | "berkeley_sync" | "cristian_sync"
    active,         \* positions in nodes of the list given to the sync function
    use_median,     \* berkeley_sync's parameter
    readings,       \* berkeley_sync's snapshot
    central,        \* berkeley_sync's central value
    server_time,    \* cristian_sync's effective server time
    exc             \* "none", or the name of the exception the call raised

ui   == <<algorithm, fault_type, use_robust, input_method, manual_times>>
run  == <<before_times, skew_before, after_times, skew_after, status>>
call == <<called, active, use_median, readings, central, server_time, exc>>
vars == <<ui, nodes, run, call>>

----------------------------------------------------------------------------
(* Natural numbers of any size: little-endian sequences of limbs below     *)
(* LIMB, without leading zero limbs; <<>> is 0.                            *)

LIMB == 2^15

RECURSIVE BNorm(_)
BNorm(x) == IF Len(x) = 0 THEN x
            ELSE IF x[Len(x)] = 0 THEN BNorm(SubSeq(x, 1, Len(x) - 1))
            ELSE x

RECURSIVE BFromNat(_)
BFromNat(k) == IF k = 0 THEN <<>> ELSE <<k % LIMB>> \o BFromNat(k \div LIMB)

BLimb(x, i) == IF i <= Len(x) THEN x[i] ELSE 0

RECURSIVE BAddFrom(_, _, _, _)
BAddFrom(x, y, i, carry) ==
    IF i > Len(x) /\ i > Len(y)
    THEN (IF carry = 0 THEN <<>> ELSE <<carry>>)
    ELSE LET s == BLimb(x, i) + BLimb(y, i) + carry
         IN  <<s % LIMB>> \o BAddFrom(x, y, i + 1, s \div LIMB)

BAdd(x, y) == BAddFrom(x, y, 1, 0)

\* x - y for x >= y
RECURSIVE BSubFrom(_, _, _, _)
BSubFrom(x, y, i, borrow) ==
    IF i > Len(x) THEN <<>>
    ELSE LET d == x[i] - BLimb(y, i) - borrow
         IN  IF d < 0 THEN <<d + LIMB>> \o BSubFrom(x, y, i + 1, 1)
             ELSE <<d>> \o BSubFrom(x, y, i + 1, 0)

BSub(x, y) == BNorm(BSubFrom(x, y, 1, 0))

\* -1, 0, 1 as x < y, x = y, x > y
RECURSIVE BCmpFrom(_, _, _)
BCmpFrom(x, y, i) ==
    IF i = 0 THEN 0
    ELSE IF x[i] < y[i] THEN -1
    ELSE IF x[i] > y[i] THEN 1
    ELSE BCmpFrom(x, y, i - 1)

BCmp(x, y) == IF Len(x) < Len(y) THEN -1
              ELSE IF Len(x) > Len(y) THEN 1
              ELSE BCmpFrom(x, y, Len(x))

\* x * k for 0 <= k < LIMB
RECURSIVE BMulSmallFrom(_, _, _, _)
BMulSmallFrom(x, k, i, carry) ==
    IF i > Len(x) THEN (IF carry = 0 THEN <<>> ELSE <<carry>>)
    ELSE LET p == x[i] * k + carry
         IN  <<p % LIMB>> \o BMulSmallFrom(x, k, i + 1, p \div LIMB)

BMulSmall(x, k) == IF k = 0 THEN <<>> ELSE BMulSmallFrom(x, k, 1, 0)

BShiftLimbs(x, j) == IF Len(x) = 0 THEN x ELSE [i \in 1..j |-> 0] \o x

RECURSIVE BMulFrom(_, _, _)
BMulFrom(x, y, i) ==
    IF i > Len(y) THEN <<>>
    ELSE BAdd(BShiftLimbs(BMulSmall(x, y[i]), i - 1), BMulFrom(x, y, i + 1))

BMul(x, y) == BMulFrom(x, y, 1)

\* quotient and remainder of x by k, 0 < k < LIMB
RECURSIVE BDivSmallFrom(_, _, _, _)
BDivSmallFrom(x, k, i, rem) ==
    IF i = 0 THEN [q |-> <<>>, r |-> rem]
    ELSE LET cur  == rem * LIMB + x[i]
             rest == BDivSmallFrom(x, k, i - 1, cur % k)
         IN  [q |-> rest.q \o <<cur \div k>>, r |-> rest.r]

BDivSmall(x, k) ==
    LET d == BDivSmallFrom(x, k, Len(x), 0) IN [q |-> BNorm(d.q), r |-> d.r]

\* x * 2^k and floor(x / 2^k)
BShl(x, k) == BShiftLimbs(BMulSmall(x, 2^(k % 15)), k \div 15)

BShr(x, k) ==
    IF k \div 15 >= Len(x) THEN <<>>
    ELSE BDivSmall(SubSeq(x, (k \div 15) + 1, Len(x)), 2^(k % 15)).q

RECURSIVE NatBitLen(_)
NatBitLen(k) == IF k = 0 THEN 0 ELSE 1 + NatBitLen(k \div 2)

BBitLen(x) == IF Len(x) = 0 THEN 0 ELSE 15 * (Len(x) - 1) + NatBitLen(x[Len(x)])

BIsOdd(x) == Len(x) > 0 /\ x[1] % 2 = 1

RECURSIVE NatTrailingZeros(_)
NatTrailingZeros(k) == IF k % 2 = 1 THEN 0 ELSE 1 + NatTrailingZeros(k \div 2)

\* the number of trailing zero bits of x > 0
RECURSIVE BTrailingZerosFrom(_, _)
BTrailingZerosFrom(x, i) ==
    IF x[i] = 0 THEN 15 + BTrailingZerosFrom(x, i + 1)
    ELSE NatTrailingZeros(x[i])

----------------------------------------------------------------------------
(* Python float (IEEE 754 binary64, round to nearest, ties to even).  A    *)
(* float is a record [kind, neg, m, e]:                                    *)
(*   kind = "finite": the number (-1)^neg * m * 2^e, with m odd, or with   *)
(*       m = 0 and e = 0 for 0.0 (neg = FALSE) and -0.0 (neg = TRUE);      *)
(*   kind = "inf":    inf (neg = FALSE) and -inf (neg = TRUE);             *)
(*   kind = "nan":    nan.                                                 *)
(* Finite floats are the multiples of 2^-1074 of at most 53 significant    *)
(* bits below 2^1024; a result of 2^1024 or more in magnitude is inf, and  *)
(* results below 2^-1022 are rounded to a multiple of 2^-1074 (subnormal   *)
(* numbers, down to 0.0 or -0.0).                                          *)

FZero == [kind |-> "finite", neg |-> FALSE, m |-> <<>>, e |-> 0]

FInf(neg) == [kind |-> "inf", neg |-> neg, m |-> <<>>, e |-> 0]

FNaN == [kind |-> "nan", neg |-> FALSE, m |-> <<>>, e |-> 0]

\* the record of the number (-1)^neg * M * 2^E; of 0.0 or -0.0 when M = 0
FCanon(neg, M, E) ==
    IF Len(M) = 0 THEN [kind |-> "finite", neg |-> neg, m |-> <<>>, e |-> 0]
    ELSE LET tz == BTrailingZerosFrom(M, 1)
         IN  [kind |-> "finite", neg |-> neg, m |-> BShr(M, tz), e |-> E + tz]

\* overflow: (-1)^neg * M * 2^E, or inf when that is 2^1024 or more
FRange(neg, M, E) ==
    IF E + BBitLen(M) > 1024 THEN FInf(neg) ELSE FCanon(neg, M, E)

\* M / 2^d rounded to the nearest integer, ties to even (d > 0)
BRoundShr(M, d, q) ==
    LET c == BCmp(BSub(M, BShl(q, d)), BShl(<<1>>, d - 1))
    IN  IF c > 0 \/ (c = 0 /\ BIsOdd(q)) THEN BAdd(q, <<1>>) ELSE q

\* (-1)^neg * M * 2^E rounded so that its last bit is that of exponent last
FRoundAt(neg, M, E, last) ==
    IF last <= E THEN FRange(neg, M, E)
    ELSE FRange(neg, BRoundShr(M, last - E, BShr(M, last - E)), last)

\* the float nearest to (-1)^neg * M * 2^E: 53 significant bits, and no bit
\* below that of exponent -1074
FRound(neg, M, E) ==
    IF Len(M) = 0 THEN FCanon(neg, M, E)
    ELSE IF E + BBitLen(M) - 53 < -1074 THEN FRoundAt(neg, M, E, -1074)
    ELSE FRoundAt(neg, M, E, E + BBitLen(M) - 53)

\* a + b for aligned finite a and b as a number: [neg, m, e], not rounded
\* and not canonical
XAddAligned(a, b) ==
    LET E  == IF a.e < b.e THEN a.e ELSE b.e
        A  == BShl(a.m, a.e - E)
        B  == BShl(b.m, b.e - E)
    IN  IF a.neg = b.neg
        THEN [kind |-> "finite", neg |-> a.neg, m |-> BAdd(A, B), e |-> E]
        ELSE IF BCmp(A, B) >= 0
        THEN [kind |-> "finite", neg |-> a.neg, m |-> BSub(A, B), e |-> E]
        ELSE [kind |-> "finite", neg |-> b.neg, m |-> BSub(B, A), e |-> E]

\* b as it counts in a sum with a: a term wholly more than 64 bits below the
\* last bit of a is moved up to that place, with its sign (there it is still
\* below a quarter of the last bit a float of the sum can keep)
XSticky(a, b) ==
    IF a.e - 64 >= b.e + BBitLen(b.m)
    THEN [kind |-> "finite", neg |-> b.neg, m |-> <<1>>, e |-> a.e - 64]
    ELSE b

\* a + b for finite a and b as a number, not rounded: the sum, with the
\* sign, the zeroness and the rounding to a float of the exact sum
XAdd(a, b) ==
    IF Len(b.m) = 0 THEN a
    ELSE IF Len(a.m) = 0 THEN b
    ELSE XAddAligned(XSticky(b, a), XSticky(a, b))

\* -a
FNeg(a) == IF a.kind = "nan" THEN a ELSE [a EXCEPT !.neg = ~a.neg]

\* the float of the sum x of two finite floats; a sum of 0 is -0.0 only
\* when both are -0.0
FAddFinite(a, b, x) ==
    IF Len(x.m) = 0 THEN FCanon(a.neg /\ b.neg, <<>>, 0)
    ELSE FRound(x.neg, x.m, x.e)

\* a + b
FAdd(a, b) ==
    IF a.kind = "nan" \/ b.kind = "nan" THEN FNaN
    ELSE IF a.kind = "inf"
    THEN (IF b.kind = "inf" /\ b.neg # a.neg THEN FNaN ELSE a)
    ELSE IF b.kind = "inf" THEN b
    ELSE FAddFinite(a, b, XAdd(a, b))

\* a - b
FSub(a, b) == FAdd(a, FNeg(b))

\* a * b
FMul(a, b) ==
    IF a.kind = "nan" \/ b.kind = "nan" THEN FNaN
    ELSE IF a.kind = "inf" \/ b.kind = "inf"
    THEN (IF (a.kind = "finite" /\ Len(a.m) = 0)
              \/ (b.kind = "finite" /\ Len(b.m) = 0)
          THEN FNaN ELSE FInf(a.neg # b.neg))
    ELSE FRound(a.neg # b.neg, BMul(a.m, b.m), a.e + b.e)

\* the float of (-1)^neg * (q + r / n) * 2^E, for a remainder 0 <= r < n
\* and a quotient q of more than 55 bits
FRoundQuotient(neg, q, r, E) ==
    IF r = 0 THEN FRound(neg, q, E)
    ELSE FRound(neg, BAdd(BMulSmall(q, 2), <<1>>), E - 1)

\* a / n for an integer 0 < n < 2^15 (Python: float / int)
FDivInt(a, n) ==
    IF a.kind # "finite" \/ Len(a.m) = 0 THEN a
    ELSE FRoundQuotient(a.neg, BDivSmall(BShl(a.m, 75), n).q,
                        BDivSmall(BShl(a.m, 75), n).r, a.e - 75)

\* a < b
FLess(a, b) ==
    IF a.kind = "nan" \/ b.kind = "nan" THEN FALSE
    ELSE IF a.kind = "inf" THEN a.neg /\ ~(b.kind = "inf" /\ b.neg)
    ELSE IF b.kind = "inf" THEN ~b.neg
    ELSE LET x == XAdd(a, FNeg(b)) IN x.neg /\ Len(x.m) > 0

\* the float of an integer below 2^31 in magnitude
FInt(k) == IF k < 0 THEN FCanon(TRUE, BFromNat(-k), 0) ELSE FCanon(FALSE, BFromNat(k), 0)

\* the float (-1)^neg * m * 2^e written out (m as limbs)
FLit(neg, m, e) == [kind |-> "finite", neg |-> neg, m |-> m, e |-> e]

----------------------------------------------------------------------------
(* Constants, bounds and inputs *)

NUM_NODES == 5
BASE_TIME == FInt(1000)
BYZANTINE_BIAS == FInt(30)
SYNC_THRESHOLD == FLit(FALSE, <<19661, 6553, 13107, 102>>, -55)

\* Longest node list the function-level specification builds.
MaxNodes == 4

\* Five successive results of random.uniform(0.99, 1.01): the draws after
\* random.seed(0), random.seed(1), random.seed(2) and random.seed(3).
DriftDraws == {
    <<FLit(FALSE, <<17361, 6520, 28892, 128>>, -52),
      FLit(FALSE, <<22027, 25679, 21638, 128>>, -52),
      FLit(FALSE, <<24191, 4015, 19442, 255>>, -53),
      FLit(FALSE, <<13941, 30882, 25088, 254>>, -53),
      FLit(FALSE, <<3663, 25958, 945, 128>>, -52)>>,
    <<FLit(FALSE, <<11619, 16366, 4192, 254>>, -53),
      FLit(FALSE, <<3617, 27992, 29144, 128>>, -52),
      FLit(FALSE, <<22689, 615, 22127, 128>>, -52),
      FLit(FALSE, <<32439, 13152, 24443, 254>>, -53),
      FLit(FALSE, <<29131, 4413, 32002, 255>>, -53)>>,
    <<FLit(FALSE, <<12423, 23981, 9563, 32>>, -50),
      FLit(FALSE, <<4871, 16135, 4798, 129>>, -52),
      FLit(FALSE, <<20245, 13640, 14168, 63>>, -51),
      FLit(FALSE, <<5061, 17661, 30712, 126>>, -52),
      FLit(FALSE, <<16571, 30193, 7035, 32>>, -50)>>,
    <<FLit(FALSE, <<16295, 28827, 10786, 127>>, -52),
      FLit(FALSE, <<24611, 7088, 3710, 128>>, -52),
      FLit(FALSE, <<14323, 3191, 10950, 255>>, -53),
      FLit(FALSE, <<32395, 14570, 8717, 128>>, -52),
      FLit(FALSE, <<17559, 6012, 10546, 128>>, -52)>> }

DEFAULT_INPUT == FInt(1000)

\* What the five number inputs are set to (they have no minimum and no
\* maximum): whole seconds near the default, fractions, values so large that
\* a float no longer holds the second, and values whose sum is no float.
ManualInputs == {
    <<FInt(1000),
      FInt(1002),
      FInt(998),
      FInt(1005),
      FInt(999)>>,
    <<FLit(FALSE, <<19661, 6553, 13107, 102>>, -55),
      FLit(FALSE, <<5>>, -1),
      FLit(FALSE, <<13107, 26214, 3276, 125>>, -42),
      FInt(1000),
      FInt(1000)>>,
    <<FLit(FALSE, <<28609, 3556, 142>>, 16),
      FInt(1),
      FInt(2),
      FInt(3),
      FInt(4)>>,
    <<FLit(FALSE, <<11973, 17784, 710>>, 17),
      FInt(0),
      FInt(0),
      FInt(0),
      FInt(0)>>,
    <<FLit(FALSE, <<7611, 12407, 1442, 121>>, 972),
      FLit(FALSE, <<7611, 12407, 1442, 121>>, 972),
      FLit(FALSE, <<7611, 12407, 1442, 121>>, 972),
      FLit(FALSE, <<7611, 12407, 1442, 121>>, 972),
      FLit(FALSE, <<7611, 12407, 1442, 121>>, 972)>>,
    <<FLit(FALSE, <<7611, 12407, 1442, 121>>, 972),
      FLit(TRUE, <<7611, 12407, 1442, 121>>, 972),
      FLit(FALSE, <<1>>, -1074),
      FInt(0),
      FLit(FALSE, <<7611, 12407, 1442, 121>>, 972)>> }

\* Drift and offset of the nodes the function-level specification builds.
SyncClocks == {
    [drift |-> FInt(1), offset |-> FZero],
    [drift |-> FInt(1), offset |-> FLit(FALSE, <<13107, 26214, 19660, 233>>, -50)],
    [drift |-> FLit(FALSE, <<17361, 6520, 28892, 128>>, -52), offset |-> FInt(-2)],
    [drift |-> FInt(1), offset |-> FLit(FALSE, <<28609, 3556, 142>>, 16)],
    [drift |-> FInt(1), offset |-> FLit(FALSE, <<7611, 12407, 1442, 121>>, 972)],
    [drift |-> FInt(1), offset |-> FLit(TRUE, <<7611, 12407, 1442, 121>>, 972)],
    [drift |-> FLit(FALSE, <<1>>, -1074), offset |-> FZero] }

\* The same for the nodes of a list of more than three.
LongListClocks == {
    [drift |-> FInt(1), offset |-> FZero],
    [drift |-> FInt(1), offset |-> FLit(FALSE, <<13107, 26214, 19660, 233>>, -50)],
    [drift |-> FLit(FALSE, <<17361, 6520, 28892, 128>>, -52), offset |-> FInt(-2)],
    [drift |-> FInt(1), offset |-> FLit(FALSE, <<28609, 3556, 142>>, 16)] }

----------------------------------------------------------------------------
(* class Node *)

Node(node_id, drift, is_byzantine) ==
    [node_id |-> node_id, drift |-> drift,
     is_byzantine |-> is_byzantine, offset |-> FZero]

get_time_no_bias(n) == FAdd(FMul(BASE_TIME, n.drift), n.offset)

get_time(n) ==
    LET t == FAdd(FMul(BASE_TIME, n.drift), n.offset)
    IN  IF n.is_byzantine THEN FAdd(t, BYZANTINE_BIAS) ELSE t

adjust_resets_drift(n, offset) ==
    [n EXCEPT !.offset = FAdd(n.offset, offset), !.drift = FInt(1)]

adjust_assign(n, offset) == [n EXCEPT !.offset = offset]

adjust(n, offset) == [n EXCEPT !.offset = FAdd(n.offset, offset)]

----------------------------------------------------------------------------
(* Lists *)

\* sum(rs): 0 + rs[0] + rs[1] + ..., rounded after every addition
RECURSIVE SumFrom(_, _, _)
SumFrom(rs, i, acc) ==
    IF i > Len(rs) THEN acc ELSE SumFrom(rs, i + 1, FAdd(acc, rs[i]))

Sum(rs) == SumFrom(rs, 1, FZero)

(* sorted(data) in statistics.median: CPython 3.11 list.sort (listobject.c) *)
(* on floats, where the only comparison is <.  Runs are found from left to *)
(* right (a descending run is reversed, a short run is extended to minrun  *)
(* items by binary insertion) and merged, galloping included, in the order *)
(* the powersort rule gives.  Offsets inside a run are 0-based as in the   *)
(* C source; positions in the list are 1-based.  A loop of the source that *)
(* runs once per item is run here by halves (2^k passes are 2^(k-1) passes *)
(* twice, and nothing once the loop has ended).                            *)

MIN_GALLOP == 7

Take(s, k) == SubSeq(s, 1, k)
Drop(s, k) == SubSeq(s, k + 1, Len(s))
Front(s) == SubSeq(s, 1, Len(s) - 1)
Last(s) == s[Len(s)]

RECURSIVE merge_compute_minrun(_, _)
merge_compute_minrun(n, r) ==
    IF n >= 64 THEN merge_compute_minrun(n \div 2, IF n % 2 = 1 THEN 1 ELSE r)
    ELSE n + r

\* the run that reaches position i ends there
run_ends(s, i, descending) ==
    i >= Len(s) \/ FLess(s[i + 1], s[i]) # descending

\* the last position of the run from lo on, given that it reaches position
\* i: at most 2^k items further
RECURSIVE run_end(_, _, _, _)
run_end(s, i, descending, k) ==
    IF run_ends(s, i, descending) THEN i
    ELSE IF k = 0 THEN i + 1
    ELSE run_end(s, run_end(s, i, descending, k - 1), descending, k - 1)

\* the run that starts at position lo: its length, and whether it descends
count_run(s, lo) ==
    IF lo = Len(s) THEN [n |-> 1, descending |-> FALSE]
    ELSE [n |-> run_end(s, lo + 1, FLess(s[lo + 1], s[lo]),
                        NatBitLen(Len(s))) - lo + 1,
          descending |-> FLess(s[lo + 1], s[lo])]

\* the n items from position lo on reversed
reverse_slice(s, lo, n) ==
    SubSeq(s, 1, lo - 1) \o [i \in 1..n |-> s[lo + n - i]]
        \o SubSeq(s, lo + n, Len(s))

\* where pivot goes among the sorted s[l..r-1]
RECURSIVE bisect(_, _, _, _)
bisect(s, pivot, l, r) ==
    IF l >= r THEN l
    ELSE IF FLess(pivot, s[l + ((r - l) \div 2)])
    THEN bisect(s, pivot, l, l + ((r - l) \div 2))
    ELSE bisect(s, pivot, l + ((r - l) \div 2) + 1, r)

\* s[start] moved down to position l
insert_at(s, start, l) ==
    SubSeq(s, 1, l - 1) \o <<s[start]>> \o SubSeq(s, l, start - 1)
        \o SubSeq(s, start + 1, Len(s))

\* s[start], ..., s[start + 2^k - 1], as far as hi, inserted one after the
\* other into the sorted items from lo up to them
RECURSIVE binarysort_from(_, _, _, _, _)
binarysort_from(s, lo, hi, start, k) ==
    IF start > hi \/ start > Len(s) THEN s
    ELSE IF k = 0
    THEN insert_at(s, start, bisect(s, s[start], lo, start))
    ELSE binarysort_from(binarysort_from(s, lo, hi, start, k - 1),
                         lo, hi, start + 2^(k - 1), k - 1)

\* s[lo..hi] sorted by insertion, given that s[lo..start-1] is sorted
binarysort(s, lo, hi, start) ==
    binarysort_from(s, lo, hi, start, NatBitLen(hi - start + 1))

\* whether a gallop goes on past offset ofs from hint: gallop_left to the
\* right (LR) and to the left (LL), gallop_right to the left (RL) and to the
\* right (RR)
gallop_on(key, a, hint, way, ofs) ==
    CASE way = "LR" -> FLess(a[hint + ofs + 1], key)
      [] way = "LL" -> ~FLess(a[hint - ofs + 1], key)
      [] way = "RL" -> FLess(key, a[hint - ofs + 1])
      [] way = "RR" -> ~FLess(key, a[hint + ofs + 1])

RECURSIVE gallop_ofs(_, _, _, _, _, _, _)
gallop_ofs(key, a, hint, way, maxofs, lastofs, ofs) ==
    IF ofs < maxofs /\ gallop_on(key, a, hint, way, ofs)
    THEN gallop_ofs(key, a, hint, way, maxofs, ofs, 2 * ofs + 1)
    ELSE [lastofs |-> lastofs, ofs |-> IF ofs > maxofs THEN maxofs ELSE ofs]

RECURSIVE gallop_left_search(_, _, _, _)
gallop_left_search(key, a, lastofs, ofs) ==
    IF lastofs >= ofs THEN ofs
    ELSE IF FLess(a[lastofs + ((ofs - lastofs) \div 2) + 1], key)
    THEN gallop_left_search(key, a, lastofs + ((ofs - lastofs) \div 2) + 1, ofs)
    ELSE gallop_left_search(key, a, lastofs, lastofs + ((ofs - lastofs) \div 2))

RECURSIVE gallop_right_search(_, _, _, _)
gallop_right_search(key, a, lastofs, ofs) ==
    IF lastofs >= ofs THEN ofs
    ELSE IF FLess(key, a[lastofs + ((ofs - lastofs) \div 2) + 1])
    THEN gallop_right_search(key, a, lastofs, lastofs + ((ofs - lastofs) \div 2))
    ELSE gallop_right_search(key, a, lastofs + ((ofs - lastofs) \div 2) + 1, ofs)

gallop_left_from(key, a, hint, rightwards, g) ==
    IF rightwards
    THEN gallop_left_search(key, a, g.lastofs + hint + 1, g.ofs + hint)
    ELSE gallop_left_search(key, a, hint - g.ofs + 1, hint - g.lastofs)

\* the number of items of the sorted a that are less than key, found from
\* offset hint
gallop_left(key, a, hint) ==
    IF FLess(a[hint + 1], key)
    THEN gallop_left_from(key, a, hint, TRUE,
             gallop_ofs(key, a, hint, "LR", Len(a) - hint, 0, 1))
    ELSE gallop_left_from(key, a, hint, FALSE,
             gallop_ofs(key, a, hint, "LL", hint + 1, 0, 1))

gallop_right_from(key, a, hint, rightwards, g) ==
    IF rightwards
    THEN gallop_right_search(key, a, g.lastofs + hint + 1, g.ofs + hint)
    ELSE gallop_right_search(key, a, hint - g.ofs + 1, hint - g.lastofs)

\* the number of items of the sorted a that key is not less than, found from
\* offset hint
gallop_right(key, a, hint) ==
    IF FLess(key, a[hint + 1])
    THEN gallop_right_from(key, a, hint, FALSE,
             gallop_ofs(key, a, hint, "RL", hint + 1, 0, 1))
    ELSE gallop_right_from(key, a, hint, TRUE,
             gallop_ofs(key, a, hint, "RR", Len(a) - hint, 0, 1))

(* A merge in progress: a and b are what is left of the two runs, out the  *)
(* items merged so far, min_gallop the local variable and saved            *)
(* ms->min_gallop.  In phase "one" the next pass takes one item (until one *)
(* run has won min_gallop times in a row), in phase "gallop" it takes the  *)
(* stretches found by galloping (while they are MIN_GALLOP long).          *)

merge_one(a, b, out, min_gallop, saved, acount, bcount) ==
    [phase |-> "one", a |-> a, b |-> b, out |-> out,
     min_gallop |-> min_gallop, saved |-> saved,
     acount |-> acount, bcount |-> bcount]

merge_gallop(a, b, out, min_gallop) ==
    [phase |-> "gallop", a |-> a, b |-> b, out |-> out,
     min_gallop |-> min_gallop, saved |-> min_gallop,
     acount |-> 0, bcount |-> 0]

\* the end of a merge: the three parts in place, and ms->min_gallop
merge_done(first, second, third, min_gallop) ==
    [phase |-> "done", merged |-> first \o second \o third,
     min_gallop |-> min_gallop]

\* merge_lo: the runs merged from the left

merge_lo_gallop_b(a, b, out, min_gallop, acount, k) ==
    IF k > 0 /\ Len(b) = k THEN merge_done(out \o b, a, <<>>, min_gallop)
    ELSE IF Len(a) = 2
    THEN merge_done(out \o Take(b, k) \o <<a[1]>>, Drop(b, k), Tail(a),
                    min_gallop)
    ELSE IF acount >= MIN_GALLOP \/ k >= MIN_GALLOP
    THEN merge_gallop(Tail(a), Drop(b, k), out \o Take(b, k) \o <<a[1]>>,
                      min_gallop)
    ELSE merge_one(Tail(a), Drop(b, k), out \o Take(b, k) \o <<a[1]>>,
                   min_gallop + 1, min_gallop + 1, 0, 0)

merge_lo_gallop_a(a, b, out, min_gallop, k) ==
    IF k > 0 /\ Len(a) - k = 1
    THEN merge_done(out \o Take(a, k), b, Drop(a, k), min_gallop)
    ELSE IF k > 0 /\ Len(a) = k THEN merge_done(out \o a, <<>>, b, min_gallop)
    ELSE IF Len(b) = 1
    THEN merge_done(out \o Take(a, k) \o b, Drop(a, k), <<>>, min_gallop)
    ELSE merge_lo_gallop_b(Drop(a, k), Tail(b), out \o Take(a, k) \o <<b[1]>>,
                           min_gallop, k, gallop_left(a[k + 1], Tail(b), 0))

\* one pass of the galloping loop
merge_lo_gallop(a, b, out, min_gallop) ==
    merge_lo_gallop_a(a, b, out,
                      IF min_gallop > 1 THEN min_gallop - 1 ELSE min_gallop,
                      gallop_right(b[1], a, 0))

\* one pass of the loop that takes one item at a time
merge_lo_one(a, b, out, min_gallop, saved, acount, bcount) ==
    IF FLess(b[1], a[1])
    THEN IF Len(b) = 1 THEN merge_done(Append(out, b[1]), a, <<>>, saved)
         ELSE IF bcount + 1 >= min_gallop
         THEN merge_gallop(a, Tail(b), Append(out, b[1]), min_gallop + 1)
         ELSE merge_one(a, Tail(b), Append(out, b[1]), min_gallop, saved,
                        0, bcount + 1)
    ELSE IF Len(a) = 2 THEN merge_done(Append(out, a[1]), b, Tail(a), saved)
         ELSE IF acount + 1 >= min_gallop
         THEN merge_gallop(Tail(a), b, Append(out, a[1]), min_gallop + 1)
         ELSE merge_one(Tail(a), b, Append(out, a[1]), min_gallop, saved,
                        acount + 1, 0)

\* 2^k passes
RECURSIVE merge_lo_passes(_, _)
merge_lo_passes(st, k) ==
    IF st.phase = "done" THEN st
    ELSE IF k > 0 THEN merge_lo_passes(merge_lo_passes(st, k - 1), k - 1)
    ELSE IF st.phase = "one"
    THEN merge_lo_one(st.a, st.b, st.out, st.min_gallop, st.saved,
                      st.acount, st.bcount)
    ELSE merge_lo_gallop(st.a, st.b, st.out, st.min_gallop)

merge_lo(a, b, min_gallop) ==
    IF Len(b) = 1 \/ Len(a) = 1 THEN merge_done(b, a, <<>>, min_gallop)
    ELSE merge_lo_passes(
             merge_one(a, Tail(b), <<b[1]>>, min_gallop, min_gallop, 0, 0),
             NatBitLen(Len(a) + Len(b)))

\* merge_hi: the same from the right; out is the greatest items

merge_hi_gallop_b(a, b, out, min_gallop, acount, k) ==
    IF k > 0 /\ Len(b) - k = 1
    THEN merge_done(Take(b, 1), a, Drop(b, 1) \o out, min_gallop)
    ELSE IF k > 0 /\ Len(b) = k THEN merge_done(<<>>, a, b \o out, min_gallop)
    ELSE IF Len(a) = 1
    THEN merge_done(<<>>, Take(b, Len(b) - k),
                    a \o Drop(b, Len(b) - k) \o out, min_gallop)
    ELSE IF acount >= MIN_GALLOP \/ k >= MIN_GALLOP
    THEN merge_gallop(Front(a), Take(b, Len(b) - k),
                      <<Last(a)>> \o Drop(b, Len(b) - k) \o out, min_gallop)
    ELSE merge_one(Front(a), Take(b, Len(b) - k),
                   <<Last(a)>> \o Drop(b, Len(b) - k) \o out,
                   min_gallop + 1, min_gallop + 1, 0, 0)

merge_hi_gallop_a(a, b, out, min_gallop, k) ==
    IF k > 0 /\ Len(a) = k THEN merge_done(<<>>, b, a \o out, min_gallop)
    ELSE IF Len(b) = 2
    THEN merge_done(Front(b), Take(a, Len(a) - k),
                    <<Last(b)>> \o Drop(a, Len(a) - k) \o out, min_gallop)
    ELSE merge_hi_gallop_b(Take(a, Len(a) - k), Front(b),
                           <<Last(b)>> \o Drop(a, Len(a) - k) \o out,
                           min_gallop, k,
                           Len(b) - 1 - gallop_left(a[Len(a) - k], Front(b),
                                                    Len(b) - 2))

merge_hi_gallop(a, b, out, min_gallop) ==
    merge_hi_gallop_a(a, b, out,
                      IF min_gallop > 1 THEN min_gallop - 1 ELSE min_gallop,
                      Len(a) - gallop_right(Last(b), a, Len(a) - 1))

merge_hi_one(a, b, out, min_gallop, saved, acount, bcount) ==
    IF FLess(Last(b), Last(a))
    THEN IF Len(a) = 1 THEN merge_done(b, a, out, saved)
         ELSE IF acount + 1 >= min_gallop
         THEN merge_gallop(Front(a), b, <<Last(a)>> \o out, min_gallop + 1)
         ELSE merge_one(Front(a), b, <<Last(a)>> \o out, min_gallop, saved,
                        acount + 1, 0)
    ELSE IF Len(b) = 2
         THEN merge_done(Front(b), a, <<Last(b)>> \o out, saved)
         ELSE IF bcount + 1 >= min_gallop
         THEN merge_gallop(a, Front(b), <<Last(b)>> \o out, min_gallop + 1)
         ELSE merge_one(a, Front(b), <<Last(b)>> \o out, min_gallop, saved,
                        0, bcount + 1)

RECURSIVE merge_hi_passes(_, _)
merge_hi_passes(st, k) ==
    IF st.phase = "done" THEN st
    ELSE IF k > 0 THEN merge_hi_passes(merge_hi_passes(st, k - 1), k - 1)
    ELSE IF st.phase = "one"
    THEN merge_hi_one(st.a, st.b, st.out, st.min_gallop, st.saved,
                      st.acount, st.bcount)
    ELSE merge_hi_gallop(st.a, st.b, st.out, st.min_gallop)

merge_hi(a, b, min_gallop) ==
    IF Len(a) = 1 \/ Len(b) = 1 THEN merge_done(b, a, <<>>, min_gallop)
    ELSE merge_hi_passes(
             merge_one(Front(a), b, <<Last(a)>>, min_gallop, min_gallop, 0, 0),
             NatBitLen(Len(a) + Len(b)))

\* MergeState ms: the list, the stack of pending runs [base, len, power],
\* min_gallop, and the position lo where the next run starts.  The pending
\* runs with runs i and i+1 made one:
pending_merged(p, i) ==
    SubSeq(p, 1, i - 1) \o <<[p[i] EXCEPT !.len = p[i].len + p[i + 1].len]>>
        \o SubSeq(p, i + 2, Len(p))

\* the merged items m.merged put at position start
merge_at_put(ms, i, start, m) ==
    [ms EXCEPT !.list = SubSeq(@, 1, start - 1) \o m.merged
                            \o SubSeq(@, start + Len(m.merged), Len(@)),
               !.pending = pending_merged(ms.pending, i),
               !.min_gallop = m.min_gallop]

\* nb: the items of b that come before the last of a
merge_at_b(ms, i, a, b, k, nb) ==
    IF nb <= 0 THEN [ms EXCEPT !.pending = pending_merged(ms.pending, i)]
    ELSE merge_at_put(ms, i, ms.pending[i].base + k,
             IF Len(a) - k <= nb
             THEN merge_lo(Drop(a, k), Take(b, nb), ms.min_gallop)
             ELSE merge_hi(Drop(a, k), Take(b, nb), ms.min_gallop))

\* k: the items of a that come before the first of b
merge_at_a(ms, i, a, b, k) ==
    IF k = Len(a) THEN [ms EXCEPT !.pending = pending_merged(ms.pending, i)]
    ELSE merge_at_b(ms, i, a, b, k, gallop_left(Last(a), b, Len(b) - 1))

run_items(ms, i) ==
    SubSeq(ms.list, ms.pending[i].base,
           ms.pending[i].base + ms.pending[i].len - 1)

\* the pending runs i and i+1 merged
merge_at(ms, i) ==
    merge_at_a(ms, i, run_items(ms, i), run_items(ms, i + 1),
               gallop_right(run_items(ms, i + 1)[1], run_items(ms, i), 0))

RECURSIVE powerloop_from(_, _, _, _)
powerloop_from(a, b, n, result) ==
    IF a >= n THEN powerloop_from(2 * (a - n), 2 * (b - n), n, result + 1)
    ELSE IF b >= n THEN result + 1
    ELSE powerloop_from(2 * a, 2 * b, n, result + 1)

\* the power of the boundary between a run of n1 items at 0-based index s1
\* and the next run of n2 items, in a list of n items
powerloop(s1, n1, n2, n) ==
    powerloop_from(2 * s1 + n1, 2 * s1 + 2 * n1 + n2, n, 0)

RECURSIVE found_new_run_merge(_, _)
found_new_run_merge(ms, power) ==
    IF Len(ms.pending) > 1 /\ ms.pending[Len(ms.pending) - 1].power > power
    THEN found_new_run_merge(merge_at(ms, Len(ms.pending) - 1), power)
    ELSE [ms EXCEPT !.pending[Len(ms.pending)].power = power]

\* a run of n2 items was found: pending runs of higher power are merged
found_new_run(ms, n2) ==
    IF Len(ms.pending) = 0 THEN ms
    ELSE found_new_run_merge(ms,
             powerloop(Last(ms.pending).base - 1, Last(ms.pending).len, n2,
                       Len(ms.list)))

RECURSIVE merge_force_collapse(_)
merge_force_collapse(ms) ==
    IF Len(ms.pending) <= 1 THEN ms
    ELSE merge_force_collapse(merge_at(ms,
             IF Len(ms.pending) > 2
                /\ ms.pending[Len(ms.pending) - 2].len < Last(ms.pending).len
             THEN Len(ms.pending) - 2
             ELSE Len(ms.pending) - 1))

\* the run of n items at ms.lo is pushed, after the merges it calls for
list_sort_push(ms, lo, n) ==
    [ms EXCEPT !.pending = Append(@, [base |-> lo, len |-> n, power |-> 0]),
               !.lo = lo + n]

\* one pass of the loop of list.sort: the run at ms.lo is put in ascending
\* order, extended to minrun items (or to the end of the list) and pushed
list_sort_run(ms, minrun, first, force) ==
    IF first.n >= minrun
    THEN list_sort_push(
             found_new_run(
                 [ms EXCEPT !.list = IF first.descending
                                     THEN reverse_slice(@, ms.lo, first.n)
                                     ELSE @],
                 first.n),
             ms.lo, first.n)
    ELSE list_sort_push(
             found_new_run(
                 [ms EXCEPT !.list =
                     binarysort(IF first.descending
                                THEN reverse_slice(@, ms.lo, first.n) ELSE @,
                                ms.lo, ms.lo + force - 1, ms.lo + first.n)],
                 force),
             ms.lo, force)

\* 2^k passes
RECURSIVE list_sort_passes(_, _, _)
list_sort_passes(ms, minrun, k) ==
    IF ms.lo > Len(ms.list) THEN ms
    ELSE IF k > 0
    THEN list_sort_passes(list_sort_passes(ms, minrun, k - 1), minrun, k - 1)
    ELSE list_sort_run(ms, minrun, count_run(ms.list, ms.lo),
                       IF Len(ms.list) - ms.lo + 1 <= minrun
                       THEN Len(ms.list) - ms.lo + 1 ELSE minrun)

sorted(s) ==
    IF Len(s) < 2 THEN s
    ELSE merge_force_collapse(
             list_sort_passes([list |-> s, pending |-> <<>>,
                               min_gallop |-> MIN_GALLOP, lo |-> 1],
                              merge_compute_minrun(Len(s), 0),
                              NatBitLen(Len(s)))).list

\* max(s) and min(s): the first item is kept until a later one is greater
\* (less) than the one kept
RECURSIVE max_from(_, _, _)
max_from(s, i, best) ==
    IF i > Len(s) THEN best
    ELSE max_from(s, i + 1, IF FLess(best, s[i]) THEN s[i] ELSE best)

max(s) == max_from(s, 2, s[1])

RECURSIVE min_from(_, _, _)
min_from(s, i, best) ==
    IF i > Len(s) THEN best
    ELSE min_from(s, i + 1, IF FLess(s[i], best) THEN s[i] ELSE best)

min(s) == min_from(s, 2, s[1])

\* The positions of ns[k:] (Python slice, k 0-based).
slice_from(ns, k) ==
    IF k >= Len(ns) THEN <<>> ELSE [j \in 1..(Len(ns) - k) |-> j + k]

get_times(ns) == [i \in 1..Len(ns) |-> get_time(ns[i])]

skew(times) == FSub(max(times), min(times))

----------------------------------------------------------------------------
(* berkeley_sync *)

mean_fixed_n(rs) == FDivInt(Sum(rs), NUM_NODES + 1)

mean_int_division(rs) ==
    LET q == FDivInt(Sum(rs), Len(rs))
    IN  IF q.e >= 0 THEN q ELSE FCanon(q.neg, BShr(q.m, -q.e), 0)

mean(rs) == FDivInt(Sum(rs), Len(rs))

\* the middle of the sorted data: data[n//2], or the mean of data[n//2 - 1]
\* and data[n//2] (0-based) when n is even
middle(data, n) ==
    IF n % 2 = 1 THEN data[(n \div 2) + 1]
    ELSE FDivInt(FAdd(data[n \div 2], data[(n \div 2) + 1]), 2)

median_sorted(data) == middle(data, Len(data))

median(rs) == median_sorted(sorted(rs))

\* The exception line 27 raises, "none" when it raises none.
central_exc(rs, um) ==
    IF Len(rs) # 0 THEN "none"
    ELSE IF um THEN "StatisticsError" ELSE "ZeroDivisionError"

RECURSIVE zip_adjust_reread(_, _, _, _)
zip_adjust_reread(ns, act, rs, c) ==
    IF Len(act) = 0 \/ Len(rs) = 0 THEN ns
    ELSE zip_adjust_reread(
             [ns EXCEPT ![Head(act)] =
                 adjust(ns[Head(act)],
                        FSub(c, get_time_no_bias(ns[Head(act)])))],
             Tail(act), Tail(rs), c)

\* for node, r in zip(nodes, readings): node.adjust(central - r)
RECURSIVE zip_adjust(_, _, _, _)
zip_adjust(ns, act, rs, c) ==
    IF Len(act) = 0 \/ Len(rs) = 0 THEN ns
    ELSE zip_adjust([ns EXCEPT ![Head(act)] =
                        adjust(ns[Head(act)], FSub(c, Head(rs)))],
                    Tail(act), Tail(rs), c)

\* lines 28-29, given the readings and the central value of lines 26-27
berkeley_adjust(ns, act, rs, c) ==
    [nodes |-> zip_adjust(ns, act, rs, c),
     readings |-> rs, central |-> c, exc |-> "none"]

\* lines 27-29, given the readings of line 26
berkeley_central(ns, act, rs, um) ==
    IF central_exc(rs, um) # "none"
    THEN [nodes |-> ns, readings |-> rs, central |-> FZero,
          exc |-> central_exc(rs, um)]
    ELSE berkeley_adjust(ns, act, rs, IF um THEN median(rs) ELSE mean(rs))

berkeley_sync(ns, act, um) ==
    berkeley_central(ns, act, [k \in 1..Len(act) |-> get_time(ns[act[k]])],
                     um)

----------------------------------------------------------------------------
(* cristian_sync *)

effective_server_time_single(server) == get_time(server)

\* lines 33-35: the server's reading, plus 30 again if the server is Byzantine
effective_server_time(server) ==
    IF server.is_byzantine THEN FAdd(get_time(server), BYZANTINE_BIAS)
    ELSE get_time(server)

RECURSIVE cristian_loop(_, _, _, _)
cristian_loop(ns, clients, server, last) ==
    IF Len(clients) = 0 THEN [nodes |-> ns, server_time |-> last]
    ELSE LET st == effective_server_time(ns[server])
             c  == Head(clients)
         IN  cristian_loop(
                 [ns EXCEPT ![c] = adjust(ns[c], FSub(st, get_time(ns[c])))],
                 Tail(clients), server, st)

cristian_sync_skip_first(ns, clients, server) ==
    cristian_loop(ns, IF Len(clients) = 0 THEN clients ELSE Tail(clients),
                  server, FZero)

cristian_sync(ns, clients, server) == cristian_loop(ns, clients, server, FZero)

----------------------------------------------------------------------------
(* The Streamlit script: sidebar widgets and the "Run Simulation" handler. *)
(* Every widget interaction reruns the script; nodes, the readings and the *)
(* status exist only in the rerun the button starts.                       *)

NoRun ==
    /\ nodes = <<>>
    /\ before_times = <<>> /\ skew_before = FZero
    /\ after_times = <<>> /\ skew_after = FZero /\ status = ""
    /\ called = "none" /\ active = <<>> /\ use_median = FALSE
    /\ readings = <<>> /\ central = FZero /\ server_time = FZero
    /\ exc = "none"

\* A rerun the button did not start: nothing of a run exists.
ClearRun ==
    /\ nodes' = <<>>
    /\ before_times' = <<>> /\ skew_before' = FZero
    /\ after_times' = <<>> /\ skew_after' = FZero /\ status' = ""
    /\ called' = "none" /\ active' = <<>> /\ use_median' = FALSE
    /\ readings' = <<>> /\ central' = FZero /\ server_time' = FZero
    /\ exc' = "none"

Init ==
    /\ algorithm = "Berkeley"
    /\ fault_type = "None"
    /\ use_robust = FALSE
    /\ input_method = "Random Drift"
    /\ manual_times = <<>>
    /\ NoRun

SelectAlgorithm ==
    /\ \E a \in {"Berkeley", "Cristian"} : a # algorithm /\ algorithm' = a
    /\ UNCHANGED <<fault_type, use_robust, input_method, manual_times>>
    /\ ClearRun

SelectFaultType ==
    /\ \E f \in {"None", "Byzantine Node"} : f # fault_type /\ fault_type' = f
    /\ UNCHANGED <<algorithm, use_robust, input_method, manual_times>>
    /\ ClearRun

ToggleRobust ==
    /\ use_robust' = ~use_robust
    /\ UNCHANGED <<algorithm, fault_type, input_method, manual_times>>
    /\ ClearRun

\* lines 53-62: the number inputs exist, at their default 1000.0, only
\* while "Manual Input" is selected
SelectInputMethod ==
    /\ \E m \in {"Random Drift", "Manual Input"} :
          /\ m # input_method
          /\ input_method' = m
          /\ manual_times' = IF m = "Manual Input"
                             THEN [i \in 1..NUM_NODES |-> DEFAULT_INPUT]
                             ELSE <<>>
    /\ UNCHANGED <<algorithm, fault_type, use_robust>>
    /\ ClearRun

\* One number input is changed.  The inputs are kept on the way from the
\* defaults to one list of ManualInputs: each input holds its default or
\* that list's value.
SetManualTime ==
    /\ input_method = "Manual Input"
    /\ \E i \in 1..NUM_NODES, s \in ManualInputs, t \in ManualInputs :
          \E val \in {s[i], DEFAULT_INPUT} :
             /\ val # manual_times[i]
             /\ \A j \in 1..NUM_NODES :
                   [manual_times EXCEPT ![i] = val][j] \in {t[j], DEFAULT_INPUT}
             /\ manual_times' = [manual_times EXCEPT ![i] = val]
    /\ UNCHANGED <<algorithm, fault_type, use_robust, input_method>>
    /\ ClearRun

manual_node_no_base(i, byzantine_id, t) ==
    [Node(i, FInt(1), i = byzantine_id) EXCEPT !.offset = t]

\* lines 72-73
manual_node(i, byzantine_id, t) ==
    [Node(i, FInt(1), i = byzantine_id) EXCEPT !.offset = FSub(t, BASE_TIME)]

\* lines 67-78; drifts are the values random.uniform returns
build_nodes(ft, mt, drifts) ==
    LET byzantine_id == IF ft = "Byzantine Node" THEN 0 ELSE -1
    IN  [i \in 1..NUM_NODES |->
            IF mt # <<>> THEN manual_node(i - 1, byzantine_id, mt[i])
            ELSE Node(i - 1, drifts[i], (i - 1) = byzantine_id)]

sync_status(sk) ==
    IF FLess(sk, SYNC_THRESHOLD) THEN "SYNCHRONIZED" ELSE "UNSYNCHRONIZED"

RunSimulation ==
    \E drifts \in (IF manual_times # <<>> THEN {<<>>} ELSE DriftDraws) :
    \E built \in {build_nodes(fault_type, manual_times, drifts)} :
    \E act \in {IF algorithm = "Berkeley"
                THEN (IF fault_type = "Crash" THEN slice_from(built, 1)
                      ELSE slice_from(built, 0))
                ELSE (IF fault_type = "Crash" THEN slice_from(built, 2)
                      ELSE slice_from(built, 1))} :
    \E res \in {IF algorithm = "Berkeley"
                THEN berkeley_sync(built, act, use_robust)
                ELSE cristian_sync(built, act, 1)} :
    \E bt \in {get_times(built)}, at \in {get_times(res.nodes)} :
    \E sb \in {skew(bt)}, sa \in {skew(at)} :
        /\ before_times' = bt
        /\ skew_before' = sb
        /\ active' = act
        /\ IF algorithm = "Berkeley"
           THEN /\ called' = "berkeley_sync"
                /\ use_median' = use_robust
                /\ readings' = res.readings
                /\ central' = res.central
                /\ exc' = res.exc
                /\ server_time' = FZero
           ELSE /\ called' = "cristian_sync"
                /\ server_time' = res.server_time
                /\ exc' = "none"
                /\ use_median' = FALSE /\ readings' = <<>>
                /\ central' = FZero
        /\ nodes' = res.nodes
        /\ after_times' = at
        /\ skew_after' = sa
        /\ status' = sync_status(sa)
        /\ UNCHANGED ui

Next ==
    \/ SelectAlgorithm
    \/ SelectFaultType
    \/ ToggleRobust
    \/ SelectInputMethod
    \/ SetManualTime
    \/ RunSimulation

Spec == Init /\ [][Next]_vars

----------------------------------------------------------------------------
(* The two sync functions called directly, on any list of up to MaxNodes   *)
(* nodes (node 0 Byzantine or no node Byzantine, as line 67 decides), with *)
(* any tail of the list as the active nodes or the clients.  The nodes of  *)
(* a list of up to three are any of SyncClocks, those of a longer list any *)
(* of LongListClocks.                                                      *)

InitSync ==
    /\ algorithm = "Berkeley"
    /\ fault_type = "None"
    /\ use_robust = FALSE
    /\ input_method = "Random Drift"
    /\ manual_times = <<>>
    /\ \E n \in 0..MaxNodes, byzantine_id \in {-1, 0} :
         \E k \in [1..n -> IF n <= 3 THEN SyncClocks ELSE LongListClocks] :
            nodes = [i \in 1..n |->
                        [Node(i - 1, k[i].drift, (i - 1) = byzantine_id)
                            EXCEPT !.offset = k[i].offset]]
    /\ before_times = <<>> /\ skew_before = FZero
    /\ after_times = <<>> /\ skew_after = FZero /\ status = ""
    /\ called = "none" /\ active = <<>> /\ use_median = FALSE
    /\ readings = <<>> /\ central = FZero /\ server_time = FZero
    /\ exc = "none"

CallBerkeley ==
    /\ called = "none"
    /\ \E k \in 0..Len(nodes), um \in BOOLEAN :
       \E act \in {slice_from(nodes, k)} :
       \E b \in {berkeley_sync(nodes, act, um)} :
          /\ called' = "berkeley_sync"
          /\ active' = act
          /\ use_median' = um
          /\ readings' = b.readings
          /\ central' = b.central
          /\ exc' = b.exc
          /\ nodes' = b.nodes
    /\ UNCHANGED <<ui, run, server_time>>

CallCristian ==
    /\ called = "none"
    /\ Len(nodes) >= 1
    /\ \E k \in 1..Len(nodes) :
       \E clients \in {slice_from(nodes, k)} :
       \E c \in {cristian_sync(nodes, clients, 1)} :
          /\ called' = "cristian_sync"
          /\ active' = clients
          /\ server_time' = c.server_time
          /\ nodes' = c.nodes
    /\ UNCHANGED <<ui, run, use_median, readings, central, exc>>

NextSync == CallBerkeley \/ CallCristian

SpecSync == InitSync /\ [][NextSync]_vars

----------------------------------------------------------------------------
(* Properties *)

all_nodes(ns) == slice_from(ns, 0)

equal_drift(ns) == \A i, j \in 1..Len(ns) : ns[i].drift = ns[j].drift

no_byzantine(ns) == \A i \in 1..Len(ns) : ~ns[i].is_byzantine

elements(s) == {s[k] : k \in 1..Len(s)}

\* Two times count as equal when they differ by at most 1e-6 s, and a time
\* value as moderate when its magnitude is at most 1e6 s.
TOLERANCE == FLit(FALSE, <<28045, 16747, 7134, 134>>, -72)
MAGNITUDE == FInt(1000000)

finite(a) == a.kind = "finite"

\* a <= b (never so for nan)
FLeq(a, b) == a.kind # "nan" /\ b.kind # "nan" /\ ~FLess(b, a)

FAbs(a) == [a EXCEPT !.neg = FALSE]

\* |a - b| for finite a and b, not rounded
distance(a, b) == FAbs(XAdd(a, FNeg(b)))

\* inf and nan are close to nothing
close(a, b) == finite(a) /\ finite(b) /\ FLeq(distance(a, b), TOLERANCE)

moderate(x) == finite(x) /\ FLeq(FAbs(x), MAGNITUDE)

moderate_times(ts) == \A i \in 1..Len(ts) : moderate(ts[i])

moderate_nodes(ns) ==
    \A i \in 1..Len(ns) : moderate(get_time(ns[i])) /\ moderate(ns[i].offset)

\* rs[1] + ... + rs[n], not rounded
RECURSIVE XSumFrom(_, _, _)
XSumFrom(rs, i, acc) ==
    IF i > Len(rs) THEN acc ELSE XSumFrom(rs, i + 1, XAdd(acc, rs[i]))

XScale(a, n) == [a EXCEPT !.m = BMulSmall(a.m, n)]

\* |x - (rs[1] + ... + rs[n]) / n| <= TOLERANCE, not rounded; inf and nan
\* are close to no mean and have none
close_to_mean(x, rs) ==
    /\ finite(x)
    /\ \A i \in 1..Len(rs) : finite(rs[i])
    /\ FLeq(distance(XScale(x, Len(rs)), XSumFrom(rs, 1, FZero)),
            XScale(TOLERANCE, Len(rs)))

is_whole(x) == finite(x) /\ x.e >= 0

\* A berkeley_sync call over the whole list of n >= 3 nodes of equal drift,
\* node 0 the one Byzantine node, in median mode.
C1_Step ==
    /\ called = "none" /\ called' = "berkeley_sync"
    /\ use_median' = TRUE
    /\ active' = all_nodes(nodes)
    /\ Len(nodes) >= 3
    /\ nodes[1].is_byzantine
    /\ equal_drift(nodes)

\* C1 as stated: with one Byzantine node (node 0) among n >= 3 nodes of equal
\* drift, skewAfter of the median-mode sync is strictly smaller than skewAfter
\* of the mean-mode sync of the same nodes.
C1_Original ==
    [][C1_Step =>
         FLess(skew(get_times(nodes')),
               skew(get_times(
                   berkeley_sync(nodes, all_nodes(nodes), FALSE).nodes)))]_vars

\* C1 amended: in that configuration, for moderate readings and offsets,
\* skewAfter is at most 1e-6 in median mode and at most 1e-6 in mean mode
\* alike; neither need be the smaller.
C1_Amended ==
    [][(C1_Step /\ moderate_nodes(nodes)) =>
         /\ FLeq(skew(get_times(nodes')), TOLERANCE)
         /\ FLeq(skew(get_times(
                berkeley_sync(nodes, all_nodes(nodes), FALSE).nodes)),
                 TOLERANCE)]_vars

C1_Witness ==
    /\ called = "berkeley_sync" /\ use_median /\ exc = "none"
    /\ Len(nodes) = 4 /\ active = all_nodes(nodes)
    /\ nodes[1].is_byzantine /\ equal_drift(nodes)
    /\ moderate_times(readings)
    /\ FSub(readings[1], readings[2]) = FInt(30)
    /\ central = readings[2]
    /\ FLeq(skew(get_times(nodes)), TOLERANCE)

\* A mean-mode berkeley_sync call over the whole list of n >= 1 nodes, none
\* Byzantine.
C2_Step ==
    /\ called = "none" /\ called' = "berkeley_sync"
    /\ use_median' = FALSE
    /\ Len(nodes) >= 1
    /\ active' = all_nodes(nodes)
    /\ no_byzantine(nodes)

\* What C2 promises of such a call: every node's get_time afterwards is the
\* arithmetic mean of the n readings taken before the call, and skewAfter
\* is 0 when all drifts are equal (both up to the tolerance).
C2_Post ==
    /\ \A i \in 1..Len(nodes) :
           close_to_mean(get_time(nodes'[i]), get_times(nodes))
    /\ equal_drift(nodes) => FLeq(skew(get_times(nodes')), TOLERANCE)

\* C2 as stated: a mean-mode berkeley_sync over all n >= 1 nodes, none
\* Byzantine, leaves every node's get_time at the arithmetic mean of the n
\* readings taken before the call, and skewAfter at 0 when all drifts are
\* equal; equality is read up to a tolerance of 1e-6 s.
C2_Original == [][C2_Step => C2_Post]_vars

\* C2 amended: the same, for nodes whose readings and offsets are moderate
\* (magnitude at most 1e6 s).
C2_Amended == [][(C2_Step /\ moderate_nodes(nodes)) => C2_Post]_vars

C2_Witness ==
    /\ called = "berkeley_sync" /\ ~use_median /\ exc = "none"
    /\ Len(nodes) >= 3 /\ active = all_nodes(nodes)
    /\ no_byzantine(nodes) /\ ~equal_drift(nodes)
    /\ moderate_times(readings)
    /\ FLess(FInt(7), skew(readings))
    /\ \A i \in 1..Len(nodes) : close_to_mean(get_time(nodes[i]), readings)

\* What C3 promises of a cristian_sync call: every client's get_time
\* afterwards is the server's get_time at the call, plus 30 when the server
\* is Byzantine (up to the tolerance).
C3_Post ==
    \A c \in elements(active') :
        close(get_time(nodes'[c]),
              IF nodes[1].is_byzantine
              THEN FAdd(get_time(nodes[1]), BYZANTINE_BIAS)
              ELSE get_time(nodes[1]))

\* C3 as stated: after cristian_sync every client's get_time equals the
\* server's effective time, whatever the client's drift and offset were;
\* equality is read up to a tolerance of 1e-6 s.
C3_Original ==
    [][(called = "none" /\ called' = "cristian_sync") => C3_Post]_vars

\* C3 amended: the same, for a server and clients whose readings and offsets
\* are moderate (magnitude at most 1e6 s).
C3_Amended ==
    [][(called = "none" /\ called' = "cristian_sync" /\ moderate_nodes(nodes))
       => C3_Post]_vars

C3_Witness ==
    /\ called = "cristian_sync"
    /\ Len(active) >= 2
    /\ nodes[1].is_byzantine
    /\ moderate_nodes(nodes)
    /\ \E c \in elements(active) :
          /\ nodes[c].drift # nodes[1].drift
          /\ close(get_time(nodes[c]), FAdd(get_time(nodes[1]), FInt(30)))
          /\ get_time(nodes[c]) = server_time

\* The bias of node i's readings in the run shown.
bias_of(i) ==
    IF fault_type = "Byzantine Node" /\ i = 1 THEN BYZANTINE_BIAS ELSE FZero

\* C4 as stated: in manual mode every node's first reading, under every fault
\* type, is exactly the initial time T supplied for it.
C4_Original ==
    (called # "none" /\ input_method = "Manual Input")
    => \A i \in 1..NUM_NODES : before_times[i] = manual_times[i]

\* C4 amended: in manual mode, for a supplied T of magnitude at most 1e6, a
\* node's first reading is T, or T + 30 for node 0 under the Byzantine fault:
\* exactly so when T is a whole number, within 1e-6 otherwise.
C4_Amended ==
    (called # "none" /\ input_method = "Manual Input")
    => \A i \in 1..NUM_NODES :
          moderate(manual_times[i]) =>
             /\ close(before_times[i], XAdd(manual_times[i], bias_of(i)))
             /\ is_whole(manual_times[i]) =>
                   before_times[i] = FAdd(manual_times[i], bias_of(i))

C4_Witness ==
    /\ called # "none" /\ input_method = "Manual Input"
    /\ fault_type = "Byzantine Node"
    /\ manual_times[1] = FLit(FALSE, <<19661, 6553, 13107, 102>>, -55)
    /\ before_times[1] = FLit(FALSE, <<19661, 6553, 17203, 7>>, -43)
    /\ manual_times[3] = FLit(FALSE, <<13107, 26214, 3276, 125>>, -42)
    /\ close(before_times[3], manual_times[3])
    /\ manual_times[4] = FInt(1000) /\ before_times[4] = FInt(1000)

\* What C5 promises of a Cristian run with a Byzantine server (node 0): all
\* clients read the same value afterwards, that value is the server's first
\* reading plus 30 (both up to the tolerance), and skewAfter over all nodes
\* is at least 0.1, so that the run is not classified synchronized.
C5_Post ==
    /\ \A i, j \in 2..NUM_NODES : close(after_times[i], after_times[j])
    /\ \A i \in 2..NUM_NODES :
          close(after_times[i], XAdd(before_times[1], BYZANTINE_BIAS))
    /\ FLeq(SYNC_THRESHOLD, skew_after)
    /\ status = "UNSYNCHRONIZED"

\* C5 as stated: Cristian with a Byzantine server: the clients agree, on a
\* value wrong by 30 plus the server's own bias, and skewAfter stays >= 0.1;
\* equality is read up to a tolerance of 1e-6 s.
C5_Original ==
    (called = "cristian_sync" /\ fault_type = "Byzantine Node") => C5_Post

\* C5 amended: the same, for runs whose first readings are moderate
\* (magnitude at most 1e6 s).
C5_Amended ==
    (/\ called = "cristian_sync" /\ fault_type = "Byzantine Node"
     /\ moderate_times(before_times))
    => C5_Post

C5_Witness ==
    /\ called = "cristian_sync" /\ fault_type = "Byzantine Node"
    /\ input_method = "Manual Input"
    /\ manual_times[4] = FInt(1005)
    /\ before_times[2] # before_times[3]
    /\ before_times[1] = FInt(1030)
    /\ after_times[2] = FInt(1060) /\ after_times[3] = FInt(1060)
    /\ skew_after = FInt(30)

\* C6: berkeley_sync changes nothing but the offset of the nodes of its active
\* sequence: a node outside it keeps offset, drift and Byzantine flag, a node
\* in it keeps id, drift and Byzantine flag.
C6_Frame ==
    [][(called = "none" /\ called' = "berkeley_sync")
       =>
       /\ Len(nodes') = Len(nodes)
       /\ \A i \in 1..Len(nodes) :
             IF i \in elements(active')
             THEN /\ nodes'[i].node_id = nodes[i].node_id
                  /\ nodes'[i].drift = nodes[i].drift
                  /\ nodes'[i].is_byzantine = nodes[i].is_byzantine
             ELSE nodes'[i] = nodes[i]]_vars

C6_Witness ==
    /\ called = "berkeley_sync" /\ exc = "none"
    /\ Len(nodes) >= 3
    /\ active = slice_from(nodes, 1)
    /\ FLess(FZero, skew(readings))
    /\ \A i \in elements(active) : close(get_time(nodes[i]), central)
    /\ ~close(get_time(nodes[1]), central)
    /\ nodes[1].offset = FLit(FALSE, <<13107, 26214, 19660, 233>>, -50)
    /\ nodes[2].drift # FInt(1)

\* C7 as stated: berkeley_sync on an empty active sequence ends in an
\* InvalidInput error, in both modes, and changes no node.
C7_Original ==
    [][(called = "none" /\ called' = "berkeley_sync" /\ active' = <<>>)
       => (exc' = "InvalidInput" /\ nodes' = nodes)]_vars

\* The call C7 is about has happened: median mode, empty active sequence, and
\* the exception of line 27.
C7_Witness ==
    /\ called = "berkeley_sync" /\ active = <<>>
    /\ use_median /\ exc = "StatisticsError"
    /\ Len(nodes) >= 2

scenario_times == <<FInt(1000),
      FInt(1002),
      FInt(998),
      FInt(1005),
      FInt(999)>>

\* C8: manual times [1000, 1002, 998, 1005, 999], Berkeley, mean mode, no
\* fault: skewBefore is 7.0, all five afterTimes are 1000.8, skewAfter is 0.0
\* and the run is classified synchronized.
C8_Scenario ==
    (/\ called = "berkeley_sync" /\ manual_times = scenario_times
     /\ fault_type = "None" /\ ~use_robust)
    =>
    /\ skew_before = FInt(7)
    /\ \A i \in 1..NUM_NODES : after_times[i] = FLit(FALSE, <<13107, 26214, 3276, 125>>, -42)
    /\ skew_after = FZero
    /\ status = "SYNCHRONIZED"

C8_Witness ==
    /\ called = "berkeley_sync" /\ manual_times = scenario_times
    /\ fault_type = "None" /\ ~use_robust
    /\ before_times = scenario_times
    /\ central = FLit(FALSE, <<13107, 26214, 3276, 125>>, -42)
    /\ status = "SYNCHRONIZED"

\* C9: the same manual times with node 0 Byzantine (it reads 1030): in mean
\* mode the central value is 1006.8, 6.0 above the mean 1000.8 of the supplied
\* times; in median mode the central value differs from 1006.8 and is lower.
C9_Scenario ==
    (/\ called = "berkeley_sync" /\ manual_times = scenario_times
     /\ fault_type = "Byzantine Node")
    =>
    /\ before_times[1] = FInt(1030)
    /\ ~use_median =>
          /\ central = FLit(FALSE, <<13107, 26214, 27852, 125>>, -42)
          /\ mean(scenario_times) = FLit(FALSE, <<13107, 26214, 3276, 125>>, -42)
          /\ FSub(central, mean(scenario_times)) = FInt(6)
    /\ use_median =>
          /\ central # FLit(FALSE, <<13107, 26214, 27852, 125>>, -42)
          /\ FLess(central, FLit(FALSE, <<13107, 26214, 27852, 125>>, -42))

C9_Witness ==
    /\ called = "berkeley_sync" /\ manual_times = scenario_times
    /\ fault_type = "Byzantine Node"
    /\ use_median
    /\ before_times[1] = FInt(1030)
    /\ central = FInt(1002)

\* What C10 promises of a Berkeley run: the sync was over the full node list,
\* every node's get_time afterwards is the central value, skewAfter is 0
\* (both up to the tolerance) and the run is classified synchronized.
C10_Post ==
    /\ active = all_nodes(nodes)
    /\ \A i \in 1..NUM_NODES : close(after_times[i], central)
    /\ FLeq(skew_after, TOLERANCE)
    /\ status = "SYNCHRONIZED"

\* C10 as stated: after a Berkeley run (either mode, node 0 Byzantine or not)
\* every node's get_time is the central value, so skewAfter is 0 and the run
\* is always classified synchronized; equality is read up to a tolerance of
\* 1e-6 s.
C10_Original == (called = "berkeley_sync") => C10_Post

\* C10 amended: the same, for runs whose first readings are moderate
\* (magnitude at most 1e6 s).
C10_Amended ==
    (called = "berkeley_sync" /\ moderate_times(before_times)) => C10_Post

C10_Witness ==
    /\ called = "berkeley_sync" /\ fault_type = "Byzantine Node"
    /\ input_method = "Random Drift"
    /\ ~equal_drift(nodes)
    /\ FLess(FInt(30), skew_before)
    /\ FLess(FInt(1000), central)
    /\ \A i \in 1..NUM_NODES : close(after_times[i], central)
    /\ skew_after # FZero
    /\ status = "SYNCHRONIZED"

====
